---------------------------- MODULE Spec2Model ----------------------------
(***************************************************************************)
(* Happy Thoughts API (src/server.js): the credential store (register,     *)
(* login), the authentication guard (authenticateUser) and the thought     *)
(* handlers (create, update, delete, like, get) over a MongoDB store.      *)
(*                                                                         *)
(* A handler is translated into the operators that compute what each of   *)
(* its store operations does.  Next runs every handler as one step;        *)
(* NextRace and NextAuth split a handler at its `await`s: between two      *)
(* store operations it is in flight, and the steps of the handlers of      *)
(* different clients interleave freely.  The store is taken to be          *)
(* available: a store operation fails only for the reasons the code or the *)
(* schema gives it (validation, duplicate key, malformed id, missing       *)
(* document).                                                              *)
(*                                                                         *)
(* An optional JavaScript value is a sequence of length 0 (undefined) or 1.*)
(* An Authorization header is the sequence of its space-separated words.   *)
(***************************************************************************)
EXTENDS Integers, Sequences, FiniteSets, TLC

VARIABLES
    users,      \* the User collection: a set of documents
    thoughts,   \* the Thought collection: a set of documents
    nextId,     \* the next ObjectId a `new Thought(...)` is given
    tokenCtr,   \* how many access tokens crypto.randomBytes has produced
    inflight,   \* per client: the handler awaiting the store, or Idle
    last,       \* the request just answered, until the client has read the answer
    issued,     \* history: <<username, password, accessToken>> of every 201 of /register
    deleted,    \* history: ids whose DELETE was acknowledged with 200
    loginFailed \* history: <<failed check, status, text>> of every failed login

vars == <<users, thoughts, nextId, tokenCtr, inflight, last, issued, deleted,
          loginFailed>>

----------------------------------------------------------------------------
(* Bounds of the model *)

MaxThoughts == 2        \* documents `new Thought` constructs
MaxHearts == 2          \* likes a thought receives
MaxRegistrations == 2   \* documents `new User` constructs

Clients == {"c1", "c2"}

(* Program constants *)

MessageMinLength == 5
MessageMaxLength == 140
UsernameMinLength == 3
UsernameMaxLength == 20
PasswordMinLength == 5

----------------------------------------------------------------------------
(* Values *)

Absent == <<>>
Some(v) == <<v>>

Str10 == "abcdefghij"
Str20 == Str10 \o Str10
Str140 == Str20 \o Str20 \o Str20 \o Str20 \o Str20 \o Str20 \o Str20

Usernames == {"al", "ada", Str20, Str20 \o "x"}
Passwords == {Absent, Some("abcd"), Some("abcde"), Some("secret")}
Messages == {Absent, Some(""), Some("damn"), Some("hello"), Some(Str140), Some(Str140 \o "x")}
Categories == {Absent, Some("Fun")}

(* crypto.randomBytes(16).toString("hex"): the n-th token, never a repeat *)
RandomToken(n) == "tok" \o ToString(n)

BadId == 0      \* a path parameter that is no ObjectId
Ids == 0 .. MaxThoughts

(* no header, a token no user has, the first token bare and the second token
   after "Bearer " *)
Headers ==
    {Absent, <<"Bearer", "nope">>, <<RandomToken(1)>>, <<"Bearer", RandomToken(2)>>}

----------------------------------------------------------------------------
(* Requests in flight and the answer to the last request *)

Idle == [pc |-> "idle", header |-> Absent, user |-> "", id |-> BadId,
         body |-> Absent, doc |-> Absent, modified |-> FALSE]

(* status 0: the handler has sent no response *)
NoEvent == [op |-> "none", status |-> 0, text |-> "", header |-> Absent,
            user |-> "", id |-> BadId, body |-> Absent, username |-> "",
            password |-> Absent, accessToken |-> "", doc |-> Absent]

----------------------------------------------------------------------------
(* Credential store *)

(* bcrypt.hashSync(password, salt) and bcrypt.compareSync(password, hash) *)
HashSync(password) == <<"$2b$", password>>
(* mutant: every password matches *)
CompareSyncAlways(password, hash) == TRUE

CompareSync(password, hash) == hash = HashSync(password)

(* userSchema validation: username 3..20 characters, password required; the
   password validated is the bcrypt hash, a 60 character string *)
ValidUser(u) ==
    /\ Len(u.username) >= UsernameMinLength
    /\ Len(u.username) <= UsernameMaxLength
    /\ u.password # Absent

(* mutant: username has no unique index *)
DuplicateKeyNever(coll, u) == FALSE

(* the unique index on username *)
DuplicateKey(coll, u) == \E v \in coll : v.username = u.username

InsertUser(coll, u) == coll \cup {u}

(* User.findOne({ username }) *)
FindUserByName(coll, username) ==
    IF \E u \in coll : u.username = username
    THEN Some(CHOOSE u \in coll : u.username = username)
    ELSE Absent

(* mutant: the lookup ignores the token *)
FindUserByTokenAny(coll, accessToken) ==
    IF coll = {} THEN Absent ELSE Some(CHOOSE u \in coll : TRUE)

(* User.findOne({ accessToken }) *)
FindUserByToken(coll, accessToken) ==
    IF \E u \in coll : u.accessToken = accessToken
    THEN Some(CHOOSE u \in coll : u.accessToken = accessToken)
    ELSE Absent

----------------------------------------------------------------------------
(* POST /register *)

(* new User({ username, password: hashedPassword }): the accessToken default
   is drawn at construction *)
NewUser(username, password, n) ==
    [username |-> username,
     password |-> Some(HashSync(password)),
     accessToken |-> RandomToken(n)]

(* password.length < 5; an absent password throws a TypeError instead *)
PasswordTooShort(password) == Len(password[1]) < PasswordMinLength

(* the handler up to `await new User({...}).save()` *)
RegisterStart(c, username, password) ==
    /\ last = NoEvent
    /\ inflight[c] = Idle
    /\ LET req == [NoEvent EXCEPT !.op = "register", !.username = username,
                                  !.password = password]
       IN IF password = Absent
          THEN \* the catch: a TypeError has no code 11000
               /\ last' = [req EXCEPT !.status = 500, !.text = "Internal server error"]
               /\ UNCHANGED <<inflight, tokenCtr>>
          ELSE IF PasswordTooShort(password)
          THEN /\ last' = [req EXCEPT !.status = 400,
                              !.text = "Password must be at least 5 characters long"]
               /\ UNCHANGED <<inflight, tokenCtr>>
          ELSE /\ tokenCtr < MaxRegistrations
               /\ tokenCtr' = tokenCtr + 1
               /\ inflight' = [inflight EXCEPT ![c] =
                      [Idle EXCEPT !.pc = "register.save",
                                   !.body = password,
                                   !.doc = Some(NewUser(username, password[1],
                                                        tokenCtr + 1))]]
               /\ last' = NoEvent
    /\ UNCHANGED <<users, thoughts, nextId, issued, deleted, loginFailed>>

(* the outcome of save(): validation, then the insert under the unique index;
   the catch answers 400 to code 11000 and 500 to every other error *)
RegisterOutcome(coll, u) ==
    IF ~ValidUser(u) THEN [status |-> 500, text |-> "Internal server error"]
    ELSE IF DuplicateKey(coll, u)
    THEN [status |-> 400, text |-> "That username already exists"]
    ELSE [status |-> 201, text |-> ""]

RegisterSave(c) ==
    /\ last = NoEvent
    /\ inflight[c].pc = "register.save"
    /\ LET u == inflight[c].doc[1]
           out == RegisterOutcome(users, u)
           req == [NoEvent EXCEPT !.op = "register", !.username = u.username,
                                  !.password = inflight[c].body,
                                  !.status = out.status, !.text = out.text]
       IN /\ users' = IF out.status = 201 THEN InsertUser(users, u) ELSE users
          /\ issued' = IF out.status = 201
                       THEN issued \cup {<<u.username, inflight[c].body[1], u.accessToken>>}
                       ELSE issued
          /\ last' = IF out.status = 201
                     THEN [req EXCEPT !.accessToken = u.accessToken]
                     ELSE req
    /\ inflight' = [inflight EXCEPT ![c] = Idle]
    /\ UNCHANGED <<thoughts, nextId, tokenCtr, deleted, loginFailed>>

----------------------------------------------------------------------------
(* POST /login *)

(* check: the check that ended the login.  Status 0: bcrypt.compareSync
   throws on a missing password and the handler has no try/catch, so the
   handler sends no response *)
LoginOutcome(found, password) ==
    IF found = Absent
    THEN [check |-> "user", status |-> 400,
          text |-> "Username or password is incorrect", accessToken |-> ""]
    ELSE IF password = Absent
    THEN [check |-> "password", status |-> 0, text |-> "", accessToken |-> ""]
    ELSE IF CompareSync(password[1], found[1].password[1])
    THEN [check |-> "none", status |-> 200, text |-> "",
          accessToken |-> found[1].accessToken]
    ELSE [check |-> "password", status |-> 400,
          text |-> "Username or password is incorrect", accessToken |-> ""]

Login(username, password) ==
    /\ last = NoEvent
    /\ LET out == LoginOutcome(FindUserByName(users, username), password)
       IN /\ last' = [NoEvent EXCEPT !.op = "login", !.username = username,
                                     !.password = password, !.status = out.status,
                                     !.text = out.text,
                                     !.accessToken = out.accessToken]
          /\ loginFailed' = IF out.status = 200 THEN loginFailed
                            ELSE loginFailed \cup {<<out.check, out.status, out.text>>}
    /\ UNCHANGED <<users, thoughts, nextId, tokenCtr, inflight, issued, deleted>>

----------------------------------------------------------------------------
(* authenticateUser *)

Join(words) ==
    IF words = <<>> THEN ""
    ELSE IF Len(words) = 1 THEN words[1]
    ELSE words[1] \o " " \o words[2]

(* raw.startsWith("Bearer ") ? raw.slice(7) : raw *)
StripBearer(raw) ==
    IF Len(raw) >= 2 /\ raw[1] = "Bearer" THEN Join(Tail(raw)) ELSE Join(raw)

(* User.findOne({ accessToken }) on the header's token: the user, or Absent
   and 401 *)
ResolveToken(coll, header) == FindUserByToken(coll, StripBearer(header))

Unauthorized(op, header) ==
    [NoEvent EXCEPT !.op = op, !.status = 401, !.text = "Please log in",
                    !.header = header]

----------------------------------------------------------------------------
(* Thought collection *)

(* mutant: the schema has no maxlength *)
ValidMessageNoMax(message) ==
    /\ message # Absent
    /\ message[1] # ""
    /\ Len(message[1]) >= MessageMinLength

(* thoughtSchema validation of message: required, minlength 5, maxlength 140 *)
ValidMessage(message) ==
    /\ message # Absent
    /\ message[1] # ""
    /\ Len(message[1]) >= MessageMinLength
    /\ Len(message[1]) <= MessageMaxLength

(* new Thought({ message, category, createdBy }) with the schema's defaults;
   the n-th document constructed has _id n and is constructed at time n *)
NewThought(n, message, category, createdBy) ==
    [_id |-> n,
     message |-> message,
     hearts |-> 0,
     category |-> IF category = Absent THEN "General" ELSE category[1],
     createdBy |-> createdBy,
     createdAt |-> n]

(* Thought.findById(id) *)
FindById(coll, id) ==
    IF \E t \in coll : t._id = id
    THEN Some(CHOOSE t \in coll : t._id = id)
    ELSE Absent

(* newThought.save() *)
InsertThought(coll, doc) == coll \cup {doc}

(* mutant: save() writes the whole loaded document *)
UpdateWholeDocument(coll, doc) ==
    {IF t._id = doc._id THEN doc ELSE t : t \in coll}

(* mutant: save() also writes the schema default of hearts *)
UpdateMessageAndHearts(coll, doc) ==
    {IF t._id = doc._id THEN [t EXCEPT !.message = doc.message, !.hearts = 0] ELSE t
        : t \in coll}

(* thought.save() of a loaded document: $set of the modified path, message,
   on the stored document with that _id; a missing document is not inserted *)
UpdateMessage(coll, doc) ==
    {IF t._id = doc._id THEN [t EXCEPT !.message = doc.message] ELSE t : t \in coll}

(* thought.deleteOne() *)
DeleteOneById(coll, id) == {t \in coll : t._id # id}

(* mutant: the increment is 2 *)
IncHeartsTwice(coll, id) ==
    {IF t._id = id THEN [t EXCEPT !.hearts = t.hearts + 2] ELSE t : t \in coll}

(* findByIdAndUpdate(id, { $inc: { hearts: 1 } }, { new: true }) *)
IncHearts(coll, id) ==
    {IF t._id = id THEN [t EXCEPT !.hearts = t.hearts + 1] ELSE t : t \in coll}

----------------------------------------------------------------------------
(* POST /thoughts *)

(* authenticateUser, then the handler.  The guard's lookup reads only the
   User collection, which no thought handler writes and which registration
   only extends with fresh tokens, so it is taken in one step with the
   handler's first operation on the Thought collection. *)
Create(cap, header, message, category) ==
    /\ last = NoEvent
    /\ LET user == ResolveToken(users, header)
       IN IF user = Absent
          THEN /\ last' = Unauthorized("create", header)
               /\ UNCHANGED <<thoughts, nextId>>
          ELSE /\ nextId <= cap
               /\ nextId' = nextId + 1
               /\ LET doc == NewThought(nextId, message, category, user[1].username)
                      req == [NoEvent EXCEPT !.op = "create", !.header = header,
                                             !.user = user[1].username,
                                             !.body = message, !.doc = Some(doc),
                                             !.id = doc._id]
                  IN IF ValidMessage(doc.message)
                     THEN /\ thoughts' = InsertThought(thoughts, doc)
                          /\ last' = [req EXCEPT !.status = 201]
                     ELSE /\ thoughts' = thoughts
                          /\ last' = [req EXCEPT !.status = 400,
                                                 !.text = "Could not save thought"]
    /\ UNCHANGED <<users, tokenCtr, inflight, issued, deleted, loginFailed>>

----------------------------------------------------------------------------
(* PATCH /thoughts/:id *)

(* mutant: the ownership check is missing *)
PatchForbiddenNever(thought, username) == FALSE

(* thought.createdBy !== req.user.username *)
PatchForbidden(thought, username) == thought.createdBy # username

(* req.body.message || thought.message *)
PatchedMessage(message, thought) ==
    IF message = Absent \/ message = Some("") THEN thought.message ELSE message

(* the handler up to `await thought.save()`; status 0: it goes on to save
   the loaded document, whose message it has assigned *)
PatchLoad(coll, username, id, message) ==
    LET found == FindById(coll, id)
        out == [status |-> 0, text |-> "", doc |-> found, modified |-> FALSE]
    IN IF id = BadId
       THEN [out EXCEPT !.status = 400, !.text = "Could not update thought"]
       ELSE IF found = Absent
       THEN [out EXCEPT !.status = 404, !.text = "Thought not found"]
       ELSE IF PatchForbidden(found[1], username)
       THEN [out EXCEPT !.status = 403, !.text = "Not allowed to edit this thought"]
       ELSE [out EXCEPT
               !.doc = Some([found[1] EXCEPT !.message = PatchedMessage(message, found[1])]),
               !.modified = PatchedMessage(message, found[1]) # found[1].message]

(* mutant: save() skips validation *)
PatchSaveOkUnvalidated(coll, doc, modified) == \E t \in coll : t._id = doc._id

(* save() of the loaded document: the modified path is validated, then
   written to the stored document with that _id; save() rejects with
   DocumentNotFoundError when no such document is stored *)
PatchSaveOk(coll, doc, modified) ==
    /\ modified => ValidMessage(doc.message)
    /\ FindById(coll, doc._id) # Absent

(* mutant: save() inserts the document when none is stored *)
PatchStoreUpsert(coll, doc, modified) ==
    IF modified => ValidMessage(doc.message)
    THEN [status |-> 200, text |-> "",
          coll |-> {t \in coll : t._id # doc._id} \cup {doc}]
    ELSE [status |-> 400, text |-> "Could not update thought", coll |-> coll]

PatchStore(coll, doc, modified) ==
    IF PatchSaveOk(coll, doc, modified)
    THEN [status |-> 200, text |-> "",
          coll |-> IF modified THEN UpdateMessage(coll, doc) ELSE coll]
    ELSE [status |-> 400, text |-> "Could not update thought", coll |-> coll]

PatchEvent(header, username, id, message, doc, status, text) ==
    [NoEvent EXCEPT !.op = "update", !.header = header, !.user = username, !.id = id,
                    !.body = message,
                    !.doc = doc, !.status = status, !.text = text]

(* the whole handler in one step *)
Patch(header, id, message) ==
    /\ last = NoEvent
    /\ LET user == ResolveToken(users, header)
       IN IF user = Absent
          THEN /\ last' = Unauthorized("update", header)
               /\ thoughts' = thoughts
          ELSE LET ld == PatchLoad(thoughts, user[1].username, id, message)
               IN IF ld.status # 0
                  THEN /\ last' = PatchEvent(header, user[1].username, id, Absent, ld.doc,
                                             ld.status, ld.text)
                       /\ thoughts' = thoughts
                  ELSE LET st == PatchStore(thoughts, ld.doc[1], ld.modified)
                       IN /\ last' = PatchEvent(header, user[1].username, id, message, ld.doc,
                                                st.status, st.text)
                          /\ thoughts' = st.coll
    /\ UNCHANGED <<users, nextId, tokenCtr, inflight, issued, deleted, loginFailed>>

(* the handler split at `await thought.save()` *)
PatchFindById(c, header, id, message) ==
    /\ last = NoEvent
    /\ inflight[c] = Idle
    /\ LET user == ResolveToken(users, header)
       IN IF user = Absent
          THEN /\ last' = Unauthorized("update", header)
               /\ UNCHANGED inflight
          ELSE LET ld == PatchLoad(thoughts, user[1].username, id, message)
               IN IF ld.status # 0
                  THEN /\ last' = PatchEvent(header, user[1].username, id, Absent, ld.doc,
                                             ld.status, ld.text)
                       /\ UNCHANGED inflight
                  ELSE /\ last' = NoEvent
                       /\ inflight' = [inflight EXCEPT ![c] =
                              [Idle EXCEPT !.pc = "patch.save",
                                           !.header = header,
                                           !.user = user[1].username,
                                           !.id = id, !.body = message,
                                           !.doc = ld.doc, !.modified = ld.modified]]
    /\ UNCHANGED <<users, thoughts, nextId, tokenCtr, issued, deleted, loginFailed>>

PatchSave(c) ==
    /\ last = NoEvent
    /\ inflight[c].pc = "patch.save"
    /\ LET r == inflight[c]
           st == PatchStore(thoughts, r.doc[1], r.modified)
       IN /\ last' = PatchEvent(r.header, r.user, r.id, r.body, r.doc, st.status, st.text)
          /\ thoughts' = st.coll
    /\ inflight' = [inflight EXCEPT ![c] = Idle]
    /\ UNCHANGED <<users, nextId, tokenCtr, issued, deleted, loginFailed>>

----------------------------------------------------------------------------
(* DELETE /thoughts/:id *)

(* thought.createdBy !== req.user.username *)
DeleteForbidden(thought, username) == thought.createdBy # username

(* the handler up to `await thought.deleteOne()`; status 0: it goes on to
   delete the loaded document *)
DeleteLoad(coll, username, id) ==
    LET found == FindById(coll, id)
        out == [status |-> 0, text |-> "", doc |-> found]
    IN IF id = BadId
       THEN [out EXCEPT !.status = 400, !.text = "Could not delete thought"]
       ELSE IF found = Absent
       THEN [out EXCEPT !.status = 404, !.text = "Thought not found"]
       ELSE IF DeleteForbidden(found[1], username)
       THEN [out EXCEPT !.status = 403, !.text = "Not allowed to delete this thought"]
       ELSE out

DeleteEvent(header, username, id, doc, status, text) ==
    [NoEvent EXCEPT !.op = "delete", !.header = header, !.user = username, !.id = id,
                    !.doc = doc,
                    !.status = status, !.text = text]

(* the whole handler in one step *)
Delete(header, id) ==
    /\ last = NoEvent
    /\ LET user == ResolveToken(users, header)
       IN IF user = Absent
          THEN /\ last' = Unauthorized("delete", header)
               /\ UNCHANGED <<thoughts, deleted>>
          ELSE LET ld == DeleteLoad(thoughts, user[1].username, id)
               IN IF ld.status # 0
                  THEN /\ last' = DeleteEvent(header, user[1].username, id, ld.doc,
                                              ld.status, ld.text)
                       /\ UNCHANGED <<thoughts, deleted>>
                  ELSE /\ last' = DeleteEvent(header, user[1].username, id, ld.doc, 200,
                                              "Thought deleted successfully")
                       /\ thoughts' = DeleteOneById(thoughts, id)
                       /\ deleted' = deleted \cup {id}
    /\ UNCHANGED <<users, nextId, tokenCtr, inflight, issued, loginFailed>>

(* the handler split at `await thought.deleteOne()` *)
DeleteFindById(c, header, id) ==
    /\ last = NoEvent
    /\ inflight[c] = Idle
    /\ LET user == ResolveToken(users, header)
       IN IF user = Absent
          THEN /\ last' = Unauthorized("delete", header)
               /\ UNCHANGED inflight
          ELSE LET ld == DeleteLoad(thoughts, user[1].username, id)
               IN IF ld.status # 0
                  THEN /\ last' = DeleteEvent(header, user[1].username, id, ld.doc,
                                              ld.status, ld.text)
                       /\ UNCHANGED inflight
                  ELSE /\ last' = NoEvent
                       /\ inflight' = [inflight EXCEPT ![c] =
                              [Idle EXCEPT !.pc = "delete.deleteOne",
                                           !.header = header,
                                           !.user = user[1].username,
                                           !.id = id, !.doc = ld.doc]]
    /\ UNCHANGED <<users, thoughts, nextId, tokenCtr, issued, deleted, loginFailed>>

DeleteOne(c) ==
    /\ last = NoEvent
    /\ inflight[c].pc = "delete.deleteOne"
    /\ LET r == inflight[c]
       IN /\ thoughts' = DeleteOneById(thoughts, r.id)
          /\ deleted' = deleted \cup {r.id}
          /\ last' = DeleteEvent(r.header, r.user, r.id, r.doc, 200, "Thought deleted successfully")
    /\ inflight' = [inflight EXCEPT ![c] = Idle]
    /\ UNCHANGED <<users, nextId, tokenCtr, issued, loginFailed>>

----------------------------------------------------------------------------
(* POST /thoughts/:id/like: no authenticateUser, the header is never read *)

Like(cap, header, id) ==
    /\ last = NoEvent
    /\ LET found == FindById(thoughts, id)
           req == [NoEvent EXCEPT !.op = "like", !.id = id]
       IN IF id = BadId
          THEN /\ last' = [req EXCEPT !.status = 400, !.text = "Cast to ObjectId failed"]
               /\ thoughts' = thoughts
          ELSE IF found = Absent
          THEN /\ last' = [req EXCEPT !.status = 404, !.text = "Thought not found"]
               /\ thoughts' = thoughts
          ELSE /\ found[1].hearts < cap
               /\ thoughts' = IncHearts(thoughts, id)
               /\ last' = [req EXCEPT !.status = 200, !.header = header,
                                      !.doc = FindById(IncHearts(thoughts, id), id)]
    /\ UNCHANGED <<users, nextId, tokenCtr, inflight, issued, deleted, loginFailed>>

(* GET /thoughts/:id *)

Get(id) ==
    /\ last = NoEvent
    /\ LET found == FindById(thoughts, id)
           req == [NoEvent EXCEPT !.op = "get", !.id = id, !.doc = found]
       IN IF id = BadId
          THEN last' = [req EXCEPT !.status = 400, !.text = "Invalid ID"]
          ELSE IF found = Absent
          THEN last' = [req EXCEPT !.status = 404, !.text = "Thought not found"]
          ELSE last' = [req EXCEPT !.status = 200]
    /\ UNCHANGED <<users, thoughts, nextId, tokenCtr, inflight, issued, deleted,
                   loginFailed>>

(* the client has read the answer *)
Respond ==
    /\ last # NoEvent
    /\ last' = NoEvent
    /\ UNCHANGED <<users, thoughts, nextId, tokenCtr, inflight, issued, deleted,
                   loginFailed>>

----------------------------------------------------------------------------
(* The service, every handler one step *)

Init ==
    /\ users = {}
    /\ thoughts = {}
    /\ nextId = 1
    /\ tokenCtr = 0
    /\ inflight = [c \in Clients |-> Idle]
    /\ last = NoEvent
    /\ issued = {}
    /\ deleted = {}
    /\ loginFailed = {}

(* the state two registrations leave: ada (token 1) and a user with a
   20 character name (token 2) *)
Ada == NewUser("ada", "secret", 1)
Bob == NewUser(Str20, "abcde", 2)

InitThoughts ==
    /\ users = {Ada, Bob}
    /\ thoughts = {}
    /\ nextId = 1
    /\ tokenCtr = 2
    /\ inflight = [c \in Clients |-> Idle]
    /\ last = NoEvent
    /\ issued = {<<"ada", "secret", RandomToken(1)>>, <<Str20, "abcde", RandomToken(2)>>}
    /\ deleted = {}
    /\ loginFailed = {}

Next ==
    \/ \E header \in Headers, message \in Messages, category \in Categories :
           Create(MaxThoughts, header, message, category)
    \/ \E header \in Headers, id \in Ids, message \in Messages : Patch(header, id, message)
    \/ \E header \in Headers, id \in Ids : Delete(header, id)
    \/ \E header \in Headers, id \in Ids : Like(MaxHearts, header, id)
    \/ \E id \in Ids : Get(id)
    \/ Respond

Spec == InitThoughts /\ [][Next]_vars

(* The credential store and the guard: registration split at its `await`,
   login, and requests through the guard, from the empty store *)
NextAuth ==
    \/ \E c \in Clients, username \in Usernames, password \in Passwords :
           RegisterStart(c, username, password)
    \/ \E c \in Clients : RegisterSave(c)
    \/ \E username \in Usernames, password \in Passwords : Login(username, password)
    \/ \E header \in Headers, id \in Ids : Delete(header, id)
    \/ Respond

SpecAuth == Init /\ [][NextAuth]_vars

(* Update and delete split at their `await`s, interleaved with each other
   and with create, like and get *)
RaceThoughts == 1
RaceHearts == 1
RaceMessages == {Absent, Some("damn"), Some("hello"), Some(Str140)}

NextRace ==
    \/ \E header \in Headers, message \in RaceMessages :
           Create(RaceThoughts, header, message, Absent)
    \/ \E c \in Clients, header \in Headers, id \in 1 .. RaceThoughts,
          message \in RaceMessages : PatchFindById(c, header, id, message)
    \/ \E c \in Clients : PatchSave(c)
    \/ \E c \in Clients, header \in Headers, id \in 1 .. RaceThoughts :
           DeleteFindById(c, header, id)
    \/ \E c \in Clients : DeleteOne(c)
    \/ \E id \in 1 .. RaceThoughts : Like(RaceHearts, Absent, id)
    \/ \E id \in 1 .. RaceThoughts : Get(id)
    \/ Respond

SpecRace == InitThoughts /\ [][NextRace]_vars

----------------------------------------------------------------------------
(* POST /thoughts with a whole request body: the handler reads message and
   category of it and nothing else *)

PostedThoughts == 2     \* documents `new Thought` constructs from whole bodies

Bodies ==
    [message : {Absent, Some("damn"), Some("hello")},
     category : {Absent},
     createdBy : {Absent, Some("ada"), Some("eve")},
     hearts : {Absent, Some(5)}]

PatchMessages == {Absent, Some("damn"), Some(Str140)}

(* mutant: the document is built from every field of the body *)
ThoughtFromWholeBody(n, body, username) ==
    [NewThought(n, body.message, body.category, username) EXCEPT
        !.createdBy = IF body.createdBy = Absent THEN username ELSE body.createdBy[1],
        !.hearts = IF body.hearts = Absent THEN 0 ELSE body.hearts[1]]

(* const { message, category } = req.body;
   new Thought({ message, category, createdBy: req.user.username }) *)
ThoughtFromBody(n, body, username) ==
    NewThought(n, body.message, body.category, username)

(* authenticateUser, then the handler; the answer also records the body sent *)
PostThought(header, body) ==
    /\ last = NoEvent
    /\ LET user == ResolveToken(users, header)
       IN IF user = Absent
          THEN /\ last' = Unauthorized("create", header) @@ [sent |-> body]
               /\ UNCHANGED <<thoughts, nextId>>
          ELSE /\ nextId <= PostedThoughts
               /\ nextId' = nextId + 1
               /\ LET doc == ThoughtFromBody(nextId, body, user[1].username)
                      req == [NoEvent EXCEPT !.op = "create", !.header = header,
                                             !.user = user[1].username,
                                             !.body = body.message, !.doc = Some(doc),
                                             !.id = doc._id] @@ [sent |-> body]
                  IN IF ValidMessage(doc.message)
                     THEN /\ thoughts' = InsertThought(thoughts, doc)
                          /\ last' = [req EXCEPT !.status = 201]
                     ELSE /\ thoughts' = thoughts
                          /\ last' = [req EXCEPT !.status = 400,
                                                 !.text = "Could not save thought"]
    /\ UNCHANGED <<users, tokenCtr, inflight, issued, deleted, loginFailed>>

NextPost ==
    \/ \E header \in Headers, body \in Bodies : PostThought(header, body)
    \/ \E header \in Headers, id \in 1 .. PostedThoughts, message \in PatchMessages :
           Patch(header, id, message)
    \/ \E header \in Headers, id \in 1 .. PostedThoughts : Delete(header, id)
    \/ \E id \in 1 .. PostedThoughts : Like(MaxHearts, Absent, id)
    \/ Respond

SpecPost == InitThoughts /\ [][NextPost]_vars

----------------------------------------------------------------------------
(* POST /login split at `await User.findOne({ username })`, with the guarded
   delete split at its awaits, under the scheduling of the event loop: a
   continuation whose awaited store operation has completed is run *)

LoginNames == {"ada", "al"}

LoginFindOne(c, username, password) ==
    /\ last = NoEvent
    /\ inflight[c] = Idle
    /\ inflight' = [inflight EXCEPT ![c] =
           [Idle EXCEPT !.pc = "login.findOne", !.user = username, !.body = password,
                        !.doc = FindUserByName(users, username)]]
    /\ UNCHANGED <<users, thoughts, nextId, tokenCtr, last, issued, deleted, loginFailed>>

(* the handler after the await.  When bcrypt.compareSync throws, the async
   handler's promise rejects; nothing in the file handles the rejection, so
   the request stays without a response *)
LoginRespond(c) ==
    /\ last = NoEvent
    /\ inflight[c].pc = "login.findOne"
    /\ LET r == inflight[c]
           out == LoginOutcome(r.doc, r.body)
       IN IF out.status = 0
          THEN /\ inflight' = [inflight EXCEPT ![c] = [r EXCEPT !.pc = "login.thrown"]]
               /\ last' = NoEvent
               /\ loginFailed' = loginFailed \cup {<<out.check, out.status, out.text>>}
          ELSE /\ inflight' = [inflight EXCEPT ![c] = Idle]
               /\ last' = [NoEvent EXCEPT !.op = "login", !.username = r.user,
                                          !.password = r.body, !.status = out.status,
                                          !.text = out.text,
                                          !.accessToken = out.accessToken]
               /\ loginFailed' = IF out.status = 200 THEN loginFailed
                                 ELSE loginFailed \cup {<<out.check, out.status, out.text>>}
    /\ UNCHANGED <<users, thoughts, nextId, tokenCtr, issued, deleted>>

NextLive ==
    \/ \E c \in Clients, username \in LoginNames, password \in Passwords :
           LoginFindOne(c, username, password)
    \/ \E c \in Clients : LoginRespond(c)
    \/ \E header \in Headers : Create(RaceThoughts, header, Some("hello"), Absent)
    \/ \E c \in Clients, header \in Headers, id \in 1 .. RaceThoughts :
           DeleteFindById(c, header, id)
    \/ \E c \in Clients : DeleteOne(c)
    \/ Respond

Fairness ==
    /\ WF_vars(Respond)
    /\ \A c \in Clients : SF_vars(LoginRespond(c)) /\ SF_vars(DeleteOne(c))

SpecLive == InitThoughts /\ [][NextLive]_vars /\ Fairness

----------------------------------------------------------------------------
(* GET /thoughts: the query translator and the list, in the persisted variant
   (server.js) and in the in-memory variant (part_001) *)

MaxStored == 21         \* thoughts in the store a list reads
DefaultPage == 1
DefaultLimit == 20

(* a query parameter is Absent or Some(text); the numeric parameters' text is
   a sequence of characters, so that parseInt reads it character by character *)
NaN == <<>>
DigitChars == <<"0", "1", "2", "3", "4", "5", "6", "7", "8", "9">>
IsDigit(ch) == \E d \in 1 .. 10 : DigitChars[d] = ch
DigitValue(ch) == (CHOOSE d \in 1 .. 10 : DigitChars[d] = ch) - 1

RECURSIVE TrimStart(_)
TrimStart(text) ==
    IF text # <<>> /\ Head(text) = " " THEN TrimStart(Tail(text)) ELSE text

RECURSIVE ParseDigits(_, _)
ParseDigits(text, acc) ==
    IF text = <<>> \/ ~IsDigit(Head(text)) THEN acc
    ELSE ParseDigits(Tail(text), acc * 10 + DigitValue(Head(text)))

(* parseInt(v): leading blanks, an optional sign, then the leading digits;
   NaN when there is no digit, as for undefined.  Some(n) or NaN *)
ParseInt(v) ==
    IF v = Absent THEN NaN
    ELSE LET text == TrimStart(v[1])
             signed == text # <<>> /\ Head(text) \in {"-", "+"}
             digits == IF signed THEN Tail(text) ELSE text
         IN IF digits = <<>> \/ ~IsDigit(Head(digits)) THEN NaN
            ELSE IF signed /\ Head(text) = "-" THEN Some(0 - ParseDigits(digits, 0))
            ELSE Some(ParseDigits(digits, 0))

(* parseInt(v) || d: NaN and 0 are falsy *)
OrDefault(n, d) == IF n = NaN \/ n = Some(0) THEN d ELSE n[1]

(* if (v): undefined and the empty string are falsy; Truthy for a string,
   TruthyChars for a text held as a sequence of characters *)
Truthy(v) == v # Absent /\ v[1] # ""
TruthyChars(v) == v # Absent /\ v[1] # <<>>

(* String.prototype.toLowerCase on the category names in use *)
ToLowerCase(str) ==
    CASE str = "Fun" -> "fun"
      [] str = "General" -> "general"
      [] OTHER -> str

PageTexts ==
    {Absent, Some(<<"a", "b", "c">>), Some(<<"0">>), Some(<<"-", "2">>),
     Some(<<"1">>), Some(<<"2">>)}
LimitTexts ==
    {Absent, Some(<<"a", "b", "c">>), Some(<<"0">>), Some(<<"-", "5">>),
     Some(<<"2">>), Some(<<"1", "0">>)}
HeartsMinTexts ==
    {Absent, Some(<<>>), Some(<<"0">>), Some(<<"1">>), Some(<<"2">>),
     Some(<<"a", "b", "c">>)}
CategoryTexts == {Absent, Some("Fun"), Some("fun")}
SortTexts == {Absent, Some("hearts"), Some("date")}

Queries ==
    [heartsMin : HeartsMinTexts, category : CategoryTexts, sortBy : SortTexts,
     page : PageTexts, limit : LimitTexts]

(* the store in natural order, the order of insertion *)
RECURSIVE Natural(_)
Natural(coll) ==
    IF coll = {} THEN <<>>
    ELSE LET first == CHOOSE t \in coll : \A u \in coll : t._id <= u._id
         IN <<first>> \o Natural(coll \ {first})

(* mutant: no predicate is applied *)
FilterNone(seq, keep) == seq

RECURSIVE Filter(_, _)
Filter(seq, keep) ==
    IF seq = <<>> THEN <<>>
    ELSE IF Head(seq) \in keep THEN <<Head(seq)>> \o Filter(Tail(seq), keep)
    ELSE Filter(Tail(seq), keep)

(* a stable sort, descending in the field *)
RECURSIVE InsertDesc(_, _, _)
InsertDesc(x, sorted, field) ==
    IF sorted = <<>> THEN <<x>>
    ELSE IF Head(sorted)[field] <= x[field] THEN <<x>> \o sorted
    ELSE <<Head(sorted)>> \o InsertDesc(x, Tail(sorted), field)

RECURSIVE SortDesc(_, _)
SortDesc(seq, field) ==
    IF seq = <<>> THEN <<>>
    ELSE InsertDesc(Head(seq), SortDesc(Tail(seq), field), field)

(* sortBy === "hearts" / sortBy === "date"; anything else keeps the order *)
Sorted(seq, sortBy) ==
    IF sortBy = Some("hearts") THEN SortDesc(seq, "hearts")
    ELSE IF sortBy = Some("date") THEN SortDesc(seq, "createdAt")
    ELSE seq

Min(a, b) == IF a <= b THEN a ELSE b
Max(a, b) == IF a >= b THEN a ELSE b

(* mutant: the offset is taken as the position of the first item *)
SliceFromPosition(seq, start, end) ==
    LET from == IF start < 0 THEN Max(Len(seq) + start, 0) ELSE Min(start, Len(seq))
        to == IF end < 0 THEN Max(Len(seq) + end, 0) ELSE Min(end, Len(seq))
    IN IF from >= to THEN <<>> ELSE SubSeq(seq, Max(from, 1), to)

(* Array.prototype.slice(start, end): a negative index counts from the end *)
Slice(seq, start, end) ==
    LET from == IF start < 0 THEN Max(Len(seq) + start, 0) ELSE Min(start, Len(seq))
        to == IF end < 0 THEN Max(Len(seq) + end, 0) ELSE Min(end, Len(seq))
    IN IF from >= to THEN <<>> ELSE SubSeq(seq, from + 1, to)

(* .skip(skip).limit(limitInt) of the store: a negative limit is taken as
   its absolute value *)
SkipLimit(seq, skip, limitInt) ==
    Slice(seq, skip, skip + (IF limitInt < 0 THEN 0 - limitInt ELSE limitInt))

ListEvent(op, q) ==
    [op |-> op, status |-> 200, text |-> "", query |-> q, page |-> 0, limit |-> 0,
     skip |-> 0, total |-> Absent, results |-> <<>>]

(* server.js: the query object, the sort, skip and limit, then
   Thought.find(query).sort(sort).skip(skip).limit(limitInt).  The store
   rejects a hearts bound that is NaN and a negative skip, and the catch
   answers 500 *)
ListResponse(coll, q) ==
    LET bounded == TruthyChars(q.heartsMin)
        bound == ParseInt(q.heartsMin)
        pageInt == OrDefault(ParseInt(q.page), DefaultPage)
        limitInt == OrDefault(ParseInt(q.limit), DefaultLimit)
        skip == (pageInt - 1) * limitInt
        found == {t \in coll :
                    /\ (bounded /\ bound # NaN) => t.hearts >= bound[1]
                    /\ Truthy(q.category) => t.category = q.category[1]}
        ev == [ListEvent("list", q) EXCEPT !.page = pageInt, !.limit = limitInt,
                                             !.skip = skip]
    IN IF (bounded /\ bound = NaN) \/ skip < 0
       THEN [ev EXCEPT !.status = 500, !.text = "Failed to fetch thoughts"]
       ELSE [ev EXCEPT !.results =
                SkipLimit(Sorted(Filter(Natural(coll), found), q.sortBy), skip, limitInt)]

(* part_001: filter, sort and slice of the array; a comparison with NaN is
   false *)
ListInMemoryResponse(coll, q) ==
    LET bounded == TruthyChars(q.heartsMin)
        bound == ParseInt(q.heartsMin)
        found == {t \in coll :
                    /\ bounded => (bound # NaN /\ t.hearts >= bound[1])
                    /\ Truthy(q.category) =>
                          ToLowerCase(t.category) = ToLowerCase(q.category[1])}
        result == Sorted(Filter(Natural(coll), found), q.sortBy)
        pageInt == OrDefault(ParseInt(q.page), DefaultPage)
        limitInt == OrDefault(ParseInt(q.limit), Len(result))
        start == (pageInt - 1) * limitInt
    IN [ListEvent("listInMemory", q) EXCEPT
           !.page = pageInt, !.limit = limitInt, !.skip = start,
           !.total = Some(Len(result)),
           !.results = Slice(result, start, start + limitInt)]

List(q) ==
    /\ last = NoEvent
    /\ last' = ListResponse(thoughts, q)
    /\ UNCHANGED <<users, thoughts, nextId, tokenCtr, inflight, issued, deleted,
                   loginFailed>>

ListInMemory(q) ==
    /\ last = NoEvent
    /\ last' = ListInMemoryResponse(thoughts, q)
    /\ UNCHANGED <<users, thoughts, nextId, tokenCtr, inflight, issued, deleted,
                   loginFailed>>

(* a store of n thoughts: hearts 0..2 in steps of step, every second thought
   in category Fun *)
Stored(n, step) ==
    {[NewThought(i, Some("hello"), IF i % 2 = 0 THEN Some("Fun") ELSE Absent, "ada")
         EXCEPT !.hearts = (i * step) % 3] : i \in 1 .. n}

InitList ==
    /\ users = {Ada, Bob}
    /\ \E n \in 0 .. MaxStored, step \in 1 .. 2 : thoughts = Stored(n, step)
    /\ nextId = MaxStored + 1
    /\ tokenCtr = 2
    /\ inflight = [c \in Clients |-> Idle]
    /\ last = NoEvent
    /\ issued = {<<"ada", "secret", RandomToken(1)>>, <<Str20, "abcde", RandomToken(2)>>}
    /\ deleted = {}
    /\ loginFailed = {}

NextList ==
    \/ \E q \in Queries : List(q)
    \/ \E q \in Queries : ListInMemory(q)
    \/ Respond

SpecList == InitList /\ [][NextList]_vars

----------------------------------------------------------------------------
(* Properties *)

Answered(op) == last.op = op /\ last.status # 0

(* the requester of the answered request is the creator of the thought the
   handler loaded *)
ByCreator == last.doc # Absent /\ last.user = last.doc[1].createdBy
NotByCreator == last.doc # Absent /\ last.user # last.doc[1].createdBy

(* a message of 5..140 characters *)
InRange(message) ==
    message # Absent /\ Len(message[1]) >= 5 /\ Len(message[1]) <= 140

(* C1, as claimed: an update or a delete of an existing thought by an
   authenticated requester succeeds if the requester is the thought's creator
   and fails with 403 otherwise *)
C1_AsClaimed ==
    ((Answered("update") \/ Answered("delete")) /\ last.status # 401 /\ last.doc # Absent)
        => IF last.user = last.doc[1].createdBy
           THEN last.status = 200
           ELSE last.status = 403

(* C1, amended: an update or a delete of an existing thought by a requester
   other than its creator fails with 403; a delete by the creator succeeds;
   an update by the creator succeeds when the message it saves is the stored
   one (no message or an empty one in the patch) or has 5..140 characters and
   the thought is still stored when it is saved, and fails with 400
   otherwise.  So a success is always the creator's, and every failure of
   another requester is a 403. *)
C1_OwnerOnly ==
    /\ (Answered("delete") /\ NotByCreator) => last.status = 403
    /\ (Answered("update") /\ NotByCreator) => last.status = 403
    /\ (Answered("delete") /\ ByCreator) => last.status = 200
    /\ (Answered("update") /\ ByCreator) =>
          IF /\ last.body \in {Absent, Some("")} \/ InRange(last.body)
             /\ \E t \in thoughts : t._id = last.id
          THEN last.status = 200
          ELSE last.status = 400

(* another user is refused the update of a stored thought *)
C1_Witness ==
    /\ Answered("update") /\ NotByCreator /\ last.status = 403
    /\ \E t \in thoughts : t._id = last.id /\ t.createdBy # last.user

(* the header carries the token of no user, bare or after "Bearer " *)
NoUserHas(header) ==
    \A u \in users : header # <<u.accessToken>> /\ header # <<"Bearer", u.accessToken>>

(* C2: a create, update or delete request whose header carries no token or a
   token of no user is answered 401 by the guard, and the step that answers
   it changes no thought, constructs no document and starts no handler *)
C2_Unauthorized ==
    [][(/\ last = NoEvent
        /\ last'.op \in {"create", "update", "delete"}
        /\ NoUserHas(last'.header))
          => /\ last'.status = 401
             /\ last'.text = "Please log in"
             /\ thoughts' = thoughts
             /\ nextId' = nextId
             /\ deleted' = deleted
             /\ inflight' = inflight]_vars

(* a delete of a stored thought with an unknown token has been refused *)
C2_Witness ==
    /\ last.op = "delete" /\ last.status = 401
    /\ last.header = <<"Bearer", "nope">>
    /\ thoughts # {}

(* C3: every stored thought has a message of 5..140 characters and
   hearts >= 0 *)
C3_ThoughtInvariant ==
    \A t \in thoughts : InRange(t.message) /\ t.hearts >= 0

(* an update has stored a 140 character message in a liked thought *)
C3_Witness ==
    /\ Answered("update") /\ last.status = 200 /\ last.body = Some(Str140)
    /\ \E t \in thoughts : t._id = last.id /\ t.message = Some(Str140) /\ t.hearts > 0

(* C4: a thought enters the store with hearts = 0; a like of a stored thought
   succeeds whatever header it carries and adds exactly 1 to that thought's
   hearts; no other step changes the hearts of a stored thought *)
C4_Hearts ==
    [][/\ \A n \in thoughts' :
            IF \E t \in thoughts : t._id = n._id
            THEN \A t \in thoughts : t._id = n._id =>
                    n.hearts = IF last'.op = "like" /\ last'.status = 200
                                    /\ last'.id = n._id
                               THEN t.hearts + 1
                               ELSE t.hearts
            ELSE n.hearts = 0
       /\ (last = NoEvent /\ last'.op = "like"
              /\ \E t \in thoughts : t._id = last'.id)
            => last'.status = 200 /\ \E n \in thoughts' : n._id = last'.id]_vars

(* a second like, sent without a credential, has brought a thought to 2 *)
C4_Witness ==
    /\ last.op = "like" /\ last.status = 200 /\ last.header = Absent
    /\ \E t \in thoughts : t._id = last.id /\ t.hearts = 2

(* C5: a create by an authenticated caller answers 201 and stores exactly one
   new thought, with that message, when the message has 5..140 characters;
   it answers 400 and stores nothing when the message is shorter, longer or
   absent *)
C5_Create ==
    [][(last = NoEvent /\ last'.op = "create" /\ last'.status # 401)
          => IF InRange(last'.body)
             THEN /\ last'.status = 201
                  /\ thoughts \subseteq thoughts'
                  /\ Cardinality(thoughts') = Cardinality(thoughts) + 1
                  /\ \E t \in thoughts' \ thoughts :
                        t.message = last'.body /\ t.createdBy = last'.user
             ELSE /\ last'.status = 400
                  /\ thoughts' = thoughts]_vars

(* a 140 character message has been stored *)
C5_Witness ==
    /\ last.op = "create" /\ last.status = 201 /\ last.body = Some(Str140)
    /\ \E t \in thoughts : t._id = last.id /\ t.message = Some(Str140)

(* the request carries a username and a password the register route accepts *)
Registrable(username, password) ==
    /\ Len(username) >= 3 /\ Len(username) <= 20
    /\ password # Absent /\ Len(password[1]) >= 5

(* C6: no two stored users share a username and no username is registered
   twice; a registration with an acceptable username and password either
   succeeds or is answered 400 "That username already exists", and then that
   username is held by the user of another registration *)
C6_UniqueUsername ==
    /\ \A u, v \in users : u.username = v.username => u = v
    /\ \A a, b \in issued : a[1] = b[1] => a = b
    /\ (last.op = "register" /\ Registrable(last.username, last.password)) =>
          \/ /\ last.status = 201
             /\ <<last.username, last.password[1], last.accessToken>> \in issued
          \/ /\ last.status = 400
             /\ last.text = "That username already exists"
             /\ \E u \in users : u.username = last.username
             /\ \A r \in issued : r[3] # last.accessToken

(* a registration that started before the other one's save has lost: the
   stored user holds the token drawn second *)
C6_Witness ==
    /\ last.op = "register" /\ last.status = 400
    /\ last.text = "That username already exists"
    /\ \E u \in users : u.username = last.username /\ u.accessToken = RandomToken(2)

(* the two forms in which a header carries a token *)
Carrying(accessToken) == {<<accessToken>>, <<"Bearer", accessToken>>}

(* C7: a login with a registered username and another password than the
   registered one is answered 400 "Username or password is incorrect" with
   no token; with the registered password it is answered 200 with the token
   issued at registration; and in every state the guard resolves each issued
   token to the user it was issued to *)
C7_Login ==
    /\ \A r \in issued :
          (last.op = "login" /\ last.username = r[1] /\ last.password # Absent) =>
              IF last.password[1] = r[2]
              THEN last.status = 200 /\ last.accessToken = r[3]
              ELSE /\ last.status = 400
                   /\ last.text = "Username or password is incorrect"
                   /\ last.accessToken = ""
    /\ \A r \in issued : \A header \in Carrying(r[3]) :
          /\ ResolveToken(users, header) # Absent
          /\ ResolveToken(users, header)[1].username = r[1]
          /\ (last.op = "delete" /\ last.header = header) =>
                last.status # 401 /\ last.user = r[1]

(* the second registered user has logged in and received their token *)
C7_Witness ==
    /\ last.op = "login" /\ last.status = 200
    /\ Cardinality(users) = 2
    /\ \E r \in issued : /\ r[3] = RandomToken(2)
                         /\ last.accessToken = r[3]
                         /\ last.username = r[1]

(* C8, as claimed: every failed login is answered alike, whichever check
   ended it *)
C8_AsClaimed ==
    \A a, b \in loginFailed : a[2] = b[2] /\ a[3] = b[3]

(* C9, as claimed: a registration whose username is shorter than 3 or longer
   than 20, or whose password is shorter than 5 or absent, is answered 400
   and persists no user *)
C9_AsClaimed ==
    (last.op = "register" /\ ~Registrable(last.username, last.password)) =>
        /\ last.status = 400
        /\ \A u \in users : u.username # last.username

(* C10: a thought whose delete was answered 200 is not stored in any later
   state, whatever updates and likes were in flight, and a get of it is
   answered 404 *)
C10_DeletedStaysDeleted ==
    \A id \in deleted :
        /\ \A t \in thoughts : t._id # id
        /\ (last.op = "get" /\ last.id = id) => last.status = 404
        /\ (last.op = "like" /\ last.id = id) => last.status = 404
        /\ (last.op = "update" /\ last.id = id) => last.status \in {400, 401, 404}

(* an update that loaded the thought before the delete has saved after it *)
C10_Witness ==
    /\ last.op = "update" /\ last.id \in deleted /\ last.status = 400
    /\ last.doc # Absent
    /\ \A t \in thoughts : t._id # last.id

(* C11: a step that answers an update with 200 leaves every other thought as
   it was, stores no thought and removes none, and changes no field of the
   target but message; when the request carries no message the store is
   unchanged *)
C11_UpdateFrame ==
    [][(last = NoEvent /\ last'.op = "update" /\ last'.status = 200)
          => /\ \A t \in thoughts : t._id # last'.id => t \in thoughts'
             /\ Cardinality(thoughts') = Cardinality(thoughts)
             /\ \A t \in thoughts : t._id = last'.id =>
                   \E n \in thoughts' :
                       /\ n._id = t._id
                       /\ n.hearts = t.hearts
                       /\ n.category = t.category
                       /\ n.createdBy = t.createdBy
                       /\ n.createdAt = t.createdAt
             /\ last'.body = Absent => thoughts' = thoughts]_vars

(* the message of a liked thought in category Fun has been replaced while
   another thought is stored *)
C11_Witness ==
    /\ last.op = "update" /\ last.status = 200 /\ last.body = Some("hello")
    /\ Cardinality(thoughts) = 2
    /\ \E t \in thoughts : /\ t._id = last.id
                           /\ t.message = Some("hello")
                           /\ t.hearts = 1
                           /\ t.category = "Fun"

(* C12, as claimed: an update by the creator whose message is present and not
   5..140 characters long, the empty string included, is answered 400 *)
C12_AsClaimed ==
    (Answered("update") /\ ByCreator /\ last.body # Absent /\ ~InRange(last.body))
        => last.status = 400

(* the decimal numerals the list requests use, read independently of parseInt *)
Decimal ==
    (<<"0">> :> 0) @@ (<<"1">> :> 1) @@ (<<"2">> :> 2) @@ (<<"1", "0">> :> 10)

Numeral(v) == v # Absent /\ v[1] \in DOMAIN Decimal

ListAnswered == last.op \in {"list", "listInMemory"} /\ last.status = 200

(* the category predicate: exact in server.js, case-insensitive in part_001 *)
SameCategory(op, stored, asked) ==
    \/ stored = asked
    \/ op = "listInMemory" /\ {stored, asked} = {"Fun", "fun"}

(* the thoughts that satisfy the hearts and category predicates of the
   answered request *)
Matching ==
    {t \in thoughts :
        /\ last.query.heartsMin # Absent => t.hearts >= Decimal[last.query.heartsMin[1]]
        /\ last.query.category # Absent =>
              SameCategory(last.op, t.category, last.query.category[1])}

ResultSet == {last.results[i] : i \in 1 .. Len(last.results)}

(* C13, as claimed: a list with heartsMin = N, with or without a category and
   with no page and no limit, returns exactly the thoughts satisfying the
   predicates *)
C13_AsClaimed ==
    (/\ ListAnswered /\ Numeral(last.query.heartsMin)
     /\ last.query.page = Absent /\ last.query.limit = Absent)
        => ResultSet = Matching

(* C13, amended: a list with heartsMin = N, with or without a category,
   returns only thoughts satisfying the predicates, each once; with no page
   and no limit it returns all of them in the in-memory variant, and in the
   persisted variant the first 20 of them, so all when at most 20 match *)
C13_Filter ==
    (ListAnswered /\ Numeral(last.query.heartsMin))
        => /\ ResultSet \subseteq Matching
           /\ Cardinality(ResultSet) = Len(last.results)
           /\ (last.query.page = Absent /\ last.query.limit = Absent) =>
                 IF last.op = "listInMemory" \/ Cardinality(Matching) <= 20
                 THEN ResultSet = Matching
                 ELSE Len(last.results) = 20

(* a list with heartsMin = 1 and category Fun has answered some thoughts and
   left out a thought for each predicate *)
C13_Witness ==
    /\ last.op = "list" /\ last.status = 200
    /\ last.query.heartsMin = Some(<<"1">>) /\ last.query.category = Some("Fun")
    /\ last.query.page = Absent /\ last.query.limit = Absent
    /\ Len(last.results) >= 2
    /\ \E t \in thoughts : t.hearts < 1 /\ t.category = "Fun"
    /\ \E t \in thoughts : t.hearts >= 1 /\ t.category # "Fun"

(* the sort key of the answered request, larger first; with no sort the
   store's order, the order of insertion *)
SortKey(t) ==
    IF last.query.sortBy = Some("hearts") THEN t.hearts
    ELSE IF last.query.sortBy = Some("date") THEN t.createdAt
    ELSE 0 - t._id

(* C14: a list with page = p and limit = n, positive integers, returns
   min(n, |F| - (p-1)n) items, none when that is negative, where F is the
   filtered set; its i-th item is an item of F that stands at offset
   (p-1)n + i - 1 in an order of F by the sort key, whatever the order among
   equal keys; and a reported total is |F| *)
C14_Pagination ==
    (/\ ListAnswered
     /\ Numeral(last.query.page) /\ Numeral(last.query.limit)
     /\ Decimal[last.query.page[1]] >= 1 /\ Decimal[last.query.limit[1]] >= 1
     /\ last.query.heartsMin # Absent => Numeral(last.query.heartsMin))
        => LET n == Decimal[last.query.limit[1]]
               offset == (Decimal[last.query.page[1]] - 1) * n
               rest == Cardinality(Matching) - offset
           IN /\ Len(last.results) = IF rest < 0 THEN 0 ELSE IF rest < n THEN rest ELSE n
              /\ Cardinality(ResultSet) = Len(last.results)
              /\ \A i \in 1 .. Len(last.results) :
                    LET item == last.results[i]
                    IN /\ item \in Matching
                       /\ Cardinality({t \in Matching : SortKey(t) > SortKey(item)})
                             <= offset + i - 1
                       /\ Cardinality({t \in Matching : SortKey(t) >= SortKey(item)})
                             > offset + i - 1
              /\ last.total # Absent => last.total[1] = Cardinality(Matching)

(* page 2 of 10 of the 21 stored thoughts, sorted by hearts, has been
   answered in full *)
C14_Witness ==
    /\ last.op = "list" /\ last.status = 200
    /\ last.query.page = Some(<<"2">>) /\ last.query.limit = Some(<<"1", "0">>)
    /\ last.query.sortBy = Some("hearts")
    /\ last.query.heartsMin = Absent /\ last.query.category = Absent
    /\ Cardinality(thoughts) = 21
    /\ Len(last.results) = 10

(* the same request without heartsMin *)
WithoutHeartsMin(q) == [q EXCEPT !.heartsMin = Absent]

(* the answer of the same variant to a request *)
Response(op, q) ==
    IF op = "list" THEN ListResponse(thoughts, q) ELSE ListInMemoryResponse(thoughts, q)

(* C15, as claimed: a list whose heartsMin is absent or is no numeral is
   answered as the same request without heartsMin is: the same status, so no
   error of its own, and the same results *)
C15_AsClaimed ==
    (last.op \in {"list", "listInMemory"} /\ ~Numeral(last.query.heartsMin))
        => /\ last.status = Response(last.op, WithoutHeartsMin(last.query)).status
           /\ last.results = Response(last.op, WithoutHeartsMin(last.query)).results

(* C16, as claimed: whatever the text of page and limit, the persisted list
   computes a page >= 1, a limit >= 1 and a skip >= 0, takes page 1 and
   limit 20 for an absent or non-numeric text, and answers without error *)
C16_AsClaimed ==
    (last.op = "list" /\ ~(TruthyChars(last.query.heartsMin) /\ ~Numeral(last.query.heartsMin)))
        => /\ last.page >= 1 /\ last.limit >= 1 /\ last.skip >= 0
           /\ last.query.page \in {Absent, Some(<<"a", "b", "c">>)} => last.page = 1
           /\ last.query.limit \in {Absent, Some(<<"a", "b", "c">>)} => last.limit = 20
           /\ last.status = 200

(* C17: in every step of every interleaving of likes with updates split at
   their await, the hearts of a stored thought grow by 1 when the step is a
   like of that thought answered 200 and stay as they are otherwise; the
   save of an update, whatever hearts its loaded document holds, leaves the
   stored hearts alone.  So the hearts of a thought are its initial hearts
   plus the likes answered 200 *)
C17_NoLostLike ==
    [][/\ \A t \in thoughts : \A n \in thoughts' : n._id = t._id =>
            n.hearts - t.hearts =
                IF last'.op = "like" /\ last'.status = 200 /\ last'.id = t._id
                   /\ last' # last
                THEN 1 ELSE 0
       /\ (last = NoEvent /\ last'.op = "update" /\ last'.status = 200) =>
             \A t \in thoughts : \E n \in thoughts' :
                 n._id = t._id /\ n.hearts = t.hearts]_vars

(* an update has saved a new message from a document loaded before a like:
   the loaded document holds 0 hearts, the stored thought keeps its 1 *)
C17_Witness ==
    /\ last.op = "update" /\ last.status = 200 /\ last.body = Some(Str140)
    /\ last.doc # Absent /\ last.doc[1].hearts = 0
    /\ \E t \in thoughts : /\ t._id = last.id
                           /\ t.hearts = 1
                           /\ t.message = Some(Str140)

(* C18: a step that answers a create with 201 stores a thought with hearts 0
   whose createdBy is the username of the user holding the token of the
   request's header, whatever createdBy and hearts the body carries; and no
   step changes the createdBy of a stored thought *)
C18_CreatedBy ==
    [][/\ (last = NoEvent /\ last'.op = "create" /\ last'.status = 201) =>
             \E n \in thoughts' \ thoughts :
                 /\ n._id = last'.id
                 /\ n.hearts = 0
                 /\ \E u \in users : /\ last'.header \in Carrying(u.accessToken)
                                     /\ n.createdBy = u.username
       /\ \A t \in thoughts : \A n \in thoughts' :
             n._id = t._id => n.createdBy = t.createdBy]_vars

(* a body naming ada as creator and 5 hearts, sent with the second user's
   token, has stored a thought of the second user with 0 hearts *)
C18_Witness ==
    /\ last.op = "create" /\ last.status = 201
    /\ last.header = <<"Bearer", RandomToken(2)>>
    /\ last.sent.createdBy = Some("ada") /\ last.sent.hearts = Some(5)
    /\ \E t \in thoughts : t._id = last.id /\ t.createdBy = Str20 /\ t.hearts = 0

Pending(c) == inflight[c].pc # "idle"

(* C19, as claimed: every request a client has in flight is eventually
   answered *)
C19_AsClaimed ==
    \A c \in Clients : Pending(c) ~> ~Pending(c)

============================================================================
